---- MODULE Spec2Model ----
(***************************************************************************)
(* Model of the gmail-mcp-server core: the Mailbox Client (ImapClient,     *)
(* src/src/email/imap-client.ts), the Transmission Client (SmtpClient,     *)
(* email/smtp-client.ts), the retry wrapper (withRetry, utils/errors.ts)   *)
(* the scheduler (setupScheduler, src/src/scheduler.ts), the startup and   *)
(* shutdown of the process and its tool dispatcher (index.ts) and the      *)
(* callers that drive the clients (the tool handlers and the scheduled     *)
(* firing).                                                                *)
(*                                                                         *)
(* The IMAP library is the environment: every connection handle has its    *)
(* own state, a selected mailbox and a first-in first-out command queue;   *)
(* the store answers one command at a time per connection.                 *)
(***************************************************************************)
EXTENDS Integers, Sequences, FiniteSets, TLC

\* ------------------------------------------------------------- bounds
MaxUid == 2          \* UIDs of a mailbox are 1..MaxUid
MaxHandles == 3      \* connection handles the process may create
MaxToolCalls == 2    \* client calls the tool dispatcher starts (Spec)
MaxSerialCalls == 1  \* client calls the tool dispatcher starts (SpecTool)
MaxFirings == 1      \* firings of the scheduled trigger
MaxLimit == 1        \* explicit limit arguments are 0..MaxLimit
MaxOffset == 1       \* explicit offset arguments are 1..MaxOffset
MaxTries == 4        \* maxRetries arguments of withRetry are 1..MaxTries
MaxTimes == 3        \* entries of a schedule configuration
MaxProcFirings == 2  \* firings of a trigger between startup and shutdown
MaxRequests == 2     \* tool requests handled by the dispatcher

\* -------------------------------------------------- program constants
DefaultLimit == 50
DefaultOffset == 0
DefaultMaxRetries == 3
DefaultDelayMs == 1000
ScheduledLimit == 50

DefaultMailbox == "INBOX"
DefaultCriteria == "ALL"
ScheduledCriteria == "UNSEEN_SINCE"

Mailboxes == {"INBOX", "Sent"}
UIDs == 1..MaxUid
Handles == 1..MaxHandles
Callers == {"tool", "sched"}

VARIABLES
    phase,      \* process position: "init", "starting", "verifying", "serving",
                \* "closing", "closingServer", "exited"
    imap,       \* ImapClient.imap: 0 is null, otherwise the handle
    connected,  \* ImapClient.connected
    nh,         \* number of handles created so far (new Imap(...))
    hstate,     \* library state of each handle
    selected,   \* mailbox selected on each handle's connection
    queue,      \* callers whose command is queued, oldest first
    store,      \* the remote store: store[m][u] is "absent", "unseen" or "seen"
    task,       \* one record per caller: the call it is running
    calls,      \* number of calls each caller has started
    marked,     \* <<mailbox, uid>> pairs of the markAsRead call that succeeded last
    retry,      \* one call of withRetry on an arbitrary operation (SpecRetry)
    mail,       \* one call of the Transmission Client (SpecMail)
    proc,       \* the process: its schedule configuration, its scheduled
                \* triggers, and the steps of its startup and shutdown
    disp        \* the tool dispatcher: the request it handles and its responses

vars == <<phase, imap, connected, nh, hstate, selected, queue, store, task,
          calls, marked, retry, mail, proc, disp>>

\* ------------------------------------------------------ pure helpers
Min(a, b) == IF a < b THEN a ELSE b
Max(a, b) == IF a > b THEN a ELSE b

\* Array.prototype.reverse
Reverse(s) == [i \in 1..Len(s) |-> s[Len(s) + 1 - i]]

\* Array.prototype.slice(from, to) with 0-based, end-exclusive indices
Slice(s, from, to) ==
    LET lo == Min(from, Len(s))
        hi == Min(Max(to, lo), Len(s))
    IN  [i \in 1..(hi - lo) |-> s[lo + i]]

\* The selection without the reversal (oldest first).
SelectUidsNoReverse(results, offset, limit) ==
    Slice(results, offset, offset + limit)

\* results.reverse().slice(offset, offset + limit)
SelectUids(results, offset, limit) ==
    Slice(Reverse(results), offset, offset + limit)

RECURSIVE Ascending(_)
Ascending(S) ==
    IF S = {} THEN <<>>
    ELSE LET m == CHOOSE x \in S : \A y \in S : x <= y
         IN  <<m>> \o Ascending(S \ {m})

Range(s) == {s[i] : i \in 1..Len(s)}

\* ------------------------------------------------------ withRetry
IsGmailMCPError(kind) ==
    kind \in {"IMAP_ERROR", "NOT_FOUND_ERROR", "AUTH_ERROR", "VALIDATION_ERROR",
              "RATE_LIMIT_ERROR", "SMTP_ERROR", "RETRYABLE_ERROR"}

\* error.retryable: true for RateLimitError and for a GmailMCPError built so.
Retryable(kind) == kind \in {"RATE_LIMIT_ERROR", "RETRYABLE_ERROR"}

\* Math.pow(2, n)
RECURSIVE Pow2(_)
Pow2(n) == IF n = 0 THEN 1 ELSE 2 * Pow2(n - 1)

\* The catch block with the linear backoff applied to RateLimit as well.
RetryDecisionLinear(kind, attempt, maxRetries, delayMs) ==
    IF IsGmailMCPError(kind) /\ ~Retryable(kind)
        THEN [act |-> "throw", wait |-> 0]
    ELSE IF attempt = maxRetries - 1
        THEN [act |-> "throw", wait |-> 0]
    ELSE [act |-> "sleep", wait |-> delayMs * (attempt + 1)]

\* The catch block without the test of error.retryable: every error is
\* retried until the last attempt.
RetryDecisionRetryAll(kind, attempt, maxRetries, delayMs) ==
    IF kind = "RATE_LIMIT_ERROR" /\ attempt < maxRetries - 1
        THEN [act |-> "sleep", wait |-> delayMs * Pow2(attempt)]
    ELSE IF attempt = maxRetries - 1
        THEN [act |-> "throw", wait |-> 0]
    ELSE [act |-> "sleep", wait |-> delayMs * (attempt + 1)]

\* The catch block whose RateLimit branch forgets the test of the last attempt.
RetryDecisionSleepLast(kind, attempt, maxRetries, delayMs) ==
    IF kind = "RATE_LIMIT_ERROR"
        THEN [act |-> "sleep", wait |-> delayMs * Pow2(attempt)]
    ELSE IF IsGmailMCPError(kind) /\ ~Retryable(kind)
        THEN [act |-> "throw", wait |-> 0]
    ELSE IF attempt = maxRetries - 1
        THEN [act |-> "throw", wait |-> 0]
    ELSE [act |-> "sleep", wait |-> delayMs * (attempt + 1)]

\* The catch block whose linear backoff counts from the attempt index itself.
RetryDecisionFromZero(kind, attempt, maxRetries, delayMs) ==
    IF kind = "RATE_LIMIT_ERROR" /\ attempt < maxRetries - 1
        THEN [act |-> "sleep", wait |-> delayMs * Pow2(attempt)]
    ELSE IF IsGmailMCPError(kind) /\ ~Retryable(kind)
        THEN [act |-> "throw", wait |-> 0]
    ELSE IF attempt = maxRetries - 1
        THEN [act |-> "throw", wait |-> 0]
    ELSE [act |-> "sleep", wait |-> delayMs * attempt]

\* The catch block with the test of error.retryable inverted.
RetryDecisionFlagInverted(kind, attempt, maxRetries, delayMs) ==
    IF kind = "RATE_LIMIT_ERROR" /\ attempt < maxRetries - 1
        THEN [act |-> "sleep", wait |-> delayMs * Pow2(attempt)]
    ELSE IF IsGmailMCPError(kind) /\ Retryable(kind)
        THEN [act |-> "throw", wait |-> 0]
    ELSE IF attempt = maxRetries - 1
        THEN [act |-> "throw", wait |-> 0]
    ELSE [act |-> "sleep", wait |-> delayMs * (attempt + 1)]

\* The catch block that gives up one attempt late.
RetryDecisionOneMore(kind, attempt, maxRetries, delayMs) ==
    IF kind = "RATE_LIMIT_ERROR" /\ attempt < maxRetries
        THEN [act |-> "sleep", wait |-> delayMs * Pow2(attempt)]
    ELSE IF IsGmailMCPError(kind) /\ ~Retryable(kind)
        THEN [act |-> "throw", wait |-> 0]
    ELSE IF attempt = maxRetries
        THEN [act |-> "throw", wait |-> 0]
    ELSE [act |-> "sleep", wait |-> delayMs * (attempt + 1)]

\* The catch block of withRetry: what follows a failed attempt.
RetryDecision(kind, attempt, maxRetries, delayMs) ==
    IF kind = "RATE_LIMIT_ERROR" /\ attempt < maxRetries - 1
        THEN [act |-> "sleep", wait |-> delayMs * Pow2(attempt)]
    ELSE IF IsGmailMCPError(kind) /\ ~Retryable(kind)
        THEN [act |-> "throw", wait |-> 0]
    ELSE IF attempt = maxRetries - 1
        THEN [act |-> "throw", wait |-> 0]
    ELSE [act |-> "sleep", wait |-> delayMs * (attempt + 1)]

\* ------------------------------------------------------ task records
\* An optional argument is <<>> when the caller leaves it out, <<v>> otherwise.
OrDefault(opt, d) == IF opt = <<>> THEN d ELSE opt[1]

NoCall == [crit |-> <<>>, mbox |-> <<>>, limit |-> <<>>, offset |-> <<>>]

IdleTask ==
    [op |-> "none", pc |-> "idle", attempt |-> 0, call |-> NoCall,
     mbox |-> "none", crit |-> "none", limit |-> 0, offset |-> 0,
     argUids |-> {}, connh |-> 0, cmdh |-> 0,
     results |-> <<>>, uids |-> <<>>, emails |-> <<>>, processed |-> 0,
     parsing |-> {}, result |-> "none",
     \* history of the call, for the properties
     searched |-> FALSE, failed |-> {}, delivered |-> {},
     execMbox |-> "none", openState |-> "none", answered |-> FALSE,
     expectRead |-> FALSE]

\* The per-attempt state of fn: a new attempt starts from scratch.
FreshAttempt(r) ==
    [r EXCEPT !.connh = 0, !.cmdh = 0, !.results = <<>>, !.uids = <<>>,
              !.emails = <<>>, !.processed = 0, !.parsing = {},
              !.searched = FALSE, !.failed = {}, !.delivered = {},
              !.execMbox = "none", !.answered = FALSE]

\* fn resolved: withRetry returns its value.
Resolve(r) == [r EXCEPT !.pc = "done", !.result = "ok"]

\* fn rejected with an error of kind `kind`: withRetry's catch block.
Reject(r, kind) ==
    LET d == RetryDecision(kind, r.attempt, DefaultMaxRetries, DefaultDelayMs)
    IN  IF d.act = "throw"
        THEN [r EXCEPT !.pc = "done", !.result = kind]
        ELSE [FreshAttempt(r) EXCEPT !.pc = "sleep", !.attempt = @ + 1]

\* ------------------------------------------------------ Transmission Client
\* A text is a sequence of tokens, '' is <<>>. A JavaScript value that may be
\* undefined, a string or an array of strings is a record of its kind.
Undefined == [kind |-> "undefined", str |-> <<>>, arr |-> <<>>]
Str(s) == [kind |-> "string", str |-> s, arr |-> <<>>]
Arr(a) == [kind |-> "array", str |-> <<>>, arr |-> a]

\* The truth value JavaScript gives a value in `!v`, `v ? :` and `v || w`.
Truthy(v) ==
    CASE v.kind = "undefined" -> FALSE
      [] v.kind = "string" -> v.str # <<>>
      [] v.kind = "array" -> TRUE

\* Array.isArray(v) ? v : [v]
ToArray(v) == IF v.kind = "array" THEN v.arr ELSE <<v.str>>

\* String.prototype.startsWith
StartsWith(s, prefix) ==
    /\ Len(s) >= Len(prefix)
    /\ SubSeq(s, 1, Len(prefix)) = prefix

RePrefix == <<"Re:">>
ReSpace == <<"Re:", " ">>

\* Array.prototype.join(' ') on an array of texts
RECURSIVE Join(_)
Join(a) ==
    IF a = <<>> THEN <<>>
    ELSE IF Len(a) = 1 THEN a[1]
    ELSE a[1] \o <<" ">> \o Join(Tail(a))

\* The subject with "Re: " prefixed whenever the caller's subject lacks "Re:".
ReplySubjectPerString(replySubject, originalSubject) ==
    IF StartsWith(replySubject, RePrefix)
    THEN replySubject
    ELSE ReSpace \o (IF Truthy(originalSubject) THEN originalSubject.str
                     ELSE replySubject)

\* replyEmail: the subject of the reply.
ReplySubject(replySubject, originalSubject) ==
    IF \/ StartsWith(replySubject, RePrefix)
       \/ originalSubject.kind = "string" /\ StartsWith(originalSubject.str, RePrefix)
    THEN replySubject
    ELSE ReSpace \o (IF Truthy(originalSubject) THEN originalSubject.str
                     ELSE replySubject)

\* The references with the original message identifier put first.
ReplyReferencesPrepend(original) ==
    IF Truthy(original.references)
    THEN LET all == <<original.messageId>> \o
                    [i \in 1..Len(original.references.arr) |->
                        Str(original.references.arr[i])]
             kept == SelectSeq(all, Truthy)
         IN  Str(Join([i \in 1..Len(kept) |-> kept[i].str]))
    ELSE original.messageId

\* replyEmail: [...references, messageId].filter(Boolean).join(' '), or the
\* message identifier when the original has no references.
ReplyReferences(original) ==
    IF Truthy(original.references)
    THEN LET all == [i \in 1..Len(original.references.arr) |->
                        Str(original.references.arr[i])]
                    \o <<original.messageId>>
             kept == SelectSeq(all, Truthy)
         IN  Str(Join([i \in 1..Len(kept) |-> kept[i].str]))
    ELSE original.messageId

\* The request of a reply that carries no inReplyTo header:
\* the thread link is dropped.
ReplyRequestUnthreaded(options, original) ==
    [to         |-> Str(IF Truthy(original.from) THEN original.from.str ELSE <<>>),
     subject    |-> Str(ReplySubject(options.subject, original.subject)),
     body       |-> options.body,
     htmlBody   |-> options.htmlBody,
     inReplyTo  |-> Undefined,
     references |-> ReplyReferences(original)]

\* replyEmail: the request it hands to sendEmail.
ReplyRequest(options, original) ==
    [to         |-> Str(IF Truthy(original.from) THEN original.from.str ELSE <<>>),
     subject    |-> Str(ReplySubject(options.subject, original.subject)),
     body       |-> options.body,
     htmlBody   |-> options.htmlBody,
     inReplyTo  |-> original.messageId,
     references |-> ReplyReferences(original)]

\* sendEmail: the test that guards the submission.
\* A validation that does not look at the recipient.
ValidWithoutRecipient(req) ==
    /\ Truthy(req.subject)
    /\ Truthy(req.body) \/ Truthy(req.htmlBody)

Valid(req) ==
    /\ Truthy(req.to)
    /\ Truthy(req.subject)
    /\ Truthy(req.body) \/ Truthy(req.htmlBody)

\* sendEmail: the message handed to transporter.sendMail.
MailOptions(req) ==
    [to         |-> ToArray(req.to),
     subject    |-> req.subject.str,
     text       |-> req.body,
     html       |-> req.htmlBody,
     inReplyTo  |-> req.inReplyTo,
     references |-> IF Truthy(req.references)
                    THEN Str(Join(ToArray(req.references)))
                    ELSE Undefined]

\* A submission error handed on as it came.
WrapSubmitErrorRaw(err) == err

\* sendEmail: the catch around sendMail wraps every error.
WrapSubmitError(err) == "SMTP_ERROR"

\* handleReplyEmail: the subject it hands to replyEmail.
ReplyToolSubject(parsedSubject, originalSubject) ==
    IF Truthy(parsedSubject) THEN parsedSubject.str
    ELSE IF Truthy(originalSubject)
    THEN IF StartsWith(originalSubject.str, RePrefix)
         THEN originalSubject.str
         ELSE ReSpace \o originalSubject.str
    ELSE <<"Re:", " ", "(no subject)">>

NoRequest ==
    [to |-> Undefined, subject |-> Undefined, body |-> Undefined,
     htmlBody |-> Undefined, inReplyTo |-> Undefined, references |-> Undefined]

NoOriginal ==
    [from |-> Undefined, subject |-> Undefined, messageId |-> Undefined,
     references |-> Undefined]

\* One call of the Transmission Client: `toolSubject` is the subject given to
\* the reply tool, `callerSubject` the one given to replyEmail, `read` the
\* outcome of the reply tool's getEmail, `sent` the messages handed to the
\* transport, oldest first.
MailIdle ==
    [pc |-> "idle", op |-> "none", toolSubject |-> Undefined,
     callerSubject |-> Undefined, original |-> NoOriginal, req |-> NoRequest,
     read |-> "none", attempt |-> 0, sent |-> <<>>, result |-> "none"]

\* sendEmail(options): validation, then attempt 0 of withRetry submits.
SendEmail(m, req) ==
    IF ~Valid(req)
    THEN [m EXCEPT !.req = req, !.pc = "thrown", !.result = "VALIDATION_ERROR"]
    ELSE [m EXCEPT !.req = req, !.pc = "submitting",
                   !.sent = Append(@, MailOptions(req))]

\* replyEmail(options, originalEmail)
ReplyEmail(m, options, original) ==
    LET m1 == [m EXCEPT !.callerSubject = Str(options.subject),
                        !.original = original]
    IN  IF ~Truthy(options.body) /\ ~Truthy(options.htmlBody)
        THEN [m1 EXCEPT !.pc = "thrown", !.result = "VALIDATION_ERROR"]
        ELSE SendEmail(m1, ReplyRequest(options, original))

\* ------------------------------------------------------ scheduler
\* A schedule time is the sequence of the texts between its colons:
\* "15:00" is <<"15", "00">>, "15" is <<"15">>, ":30" is <<"", "30">>.
NaN == [nan |-> TRUE, n |-> 0]

Num(n) == [nan |-> FALSE, n |-> n]

\* Number(text) for the texts of the schedule times.
NumberOf(text) ==
    CASE text = ""   -> Num(0)
      [] text = "00" -> Num(0)
      [] text = "15" -> Num(15)
      [] text = "23" -> Num(23)
      [] text = "25" -> Num(25)
      [] text = "30" -> Num(30)
      [] text = "59" -> Num(59)
      [] text = "60" -> Num(60)
      [] text = "-1" -> Num(-1)
      [] OTHER       -> NaN

\* timeToCronExpression(time): `minutes hours * * *`, or an Error thrown.
TimeToCronExpression(time) ==
    LET hours   == NumberOf(time[1])
        minutes == IF Len(time) >= 2 THEN NumberOf(time[2]) ELSE NaN
    IN  IF \/ hours.nan \/ minutes.nan
           \/ hours.n < 0 \/ hours.n > 23
           \/ minutes.n < 0 \/ minutes.n > 59
        THEN [ok |-> FALSE, minute |-> 0, hour |-> 0]
        ELSE [ok |-> TRUE, minute |-> minutes.n, hour |-> hours.n]

\* cron.schedule(expr, callback, {scheduled: true}): a trigger that runs.
CronSchedule(cron) ==
    [expr |-> [minute |-> cron.minute, hour |-> cron.hour], running |-> TRUE]

\* The loop of setupScheduler: each time is converted and scheduled inside
\* its own try; a time that throws is logged and skipped.
RECURSIVE RegisterTimes(_)
RegisterTimes(times) ==
    IF times = <<>>
    THEN <<>>
    ELSE LET cron == TimeToCronExpression(Head(times))
         IN  (IF cron.ok THEN <<CronSchedule(cron)>> ELSE <<>>)
                \o RegisterTimes(Tail(times))

\* setupScheduler with the try around the whole loop: it registers the times
\* before the first one that cannot be converted.
SetupSchedulerAbortOnInvalid(config) ==
    IF ~config.enabled
    THEN <<>>
    ELSE LET times == config.times
             n == CHOOSE k \in 0..Len(times) :
                     /\ \A j \in 1..k : TimeToCronExpression(times[j]).ok
                     /\ k < Len(times) => ~TimeToCronExpression(times[k + 1]).ok
         IN  [j \in 1..n |-> CronSchedule(TimeToCronExpression(times[j]))]

\* setupScheduler that does not look at config.enabled.
SetupSchedulerAlways(config) == RegisterTimes(config.times)

\* setupScheduler(config, imapClient): the triggers it returns.
SetupScheduler(config) ==
    IF ~config.enabled
    THEN <<>>
    ELSE IF config.times = <<>>
    THEN <<>>
    ELSE RegisterTimes(config.times)

\* A shutdown handler that leaves the triggers running.
StopTasksNone(tasks) == tasks

\* scheduledTasks.forEach(task => task.stop())
StopTasks(tasks) == [i \in 1..Len(tasks) |-> [tasks[i] EXCEPT !.running = FALSE]]

\* A scheduler that drops a trigger once its callback has failed.
RegisteredUntilFailure(tasks, i, last) ==
    /\ i \in 1..Len(tasks)
    /\ tasks[i].running
    /\ last \in {"none", "ok"}

\* Trigger i is registered and was not stopped; `last` is the result of the
\* firing before.
Registered(tasks, i, last) ==
    /\ i \in 1..Len(tasks)
    /\ tasks[i].running

\* ------------------------------------------------------ process
\* new GmailMCPError(message, code): no status code.
GmailMCPError(code) == [code |-> code, statusCode |-> <<>>]

\* new AuthenticationError(message)
AuthenticationError == [code |-> "AUTH_ERROR", statusCode |-> <<401>>]

NoError == [code |-> "none", statusCode |-> <<>>]

\* The error verify() rejects with.
VerifyRejection == GmailMCPError("SMTP_ERROR")

\* Startup that goes on although verify() failed.
AfterVerifyLenient(ok) == "serving"

\* initializeEmailClients after `await smtpClient.verify()`: the process goes
\* on to serve, or process.exit(1) in the catch.
AfterVerify(ok) == IF ok THEN "serving" ELSE "exited"

\* The steps of a shutdown handler, in the order of its statements.
ShutdownOrder ==
    <<"task.stop", "imapClient.disconnect", "smtpClient.close",
      "server.close", "process.exit">>

\* The process before it starts, with SCHEDULE_ENABLED and SCHEDULE_TIMES.
ProcIdle(enabled, times) ==
    [enabled        |-> enabled,
     times          |-> times,
     setup          |-> FALSE,    \* setupScheduler has returned
     scheduledTasks |-> <<>>,
     fired          |-> <<>>,     \* firings: the trigger, and the result before
     connect        |-> "none",   \* the startup connect(): "none", "ok", "failed"
     verify         |-> "none",   \* the startup verify(): "none", "ok", "failed"
     verifyError    |-> NoError,
     ending         |-> 0,        \* handle whose 'end' disconnect() waits for
     log            |-> <<>>,     \* steps of the shutdown handler taken so far
     exitCode       |-> <<>>]

\* The process is past startup and has not exited.
Running == phase \in {"serving", "closing", "closingServer"}

\* The process has constructed its clients and has not exited.
Alive == Running \/ phase \in {"starting", "verifying"}

\* ------------------------------------------------------ tool dispatcher
ToolNames ==
    {"gmail_list_emails", "gmail_read_email", "gmail_send_email",
     "gmail_reply_email", "gmail_search_emails", "gmail_mark_read"}

\* What a tool handler does: it returns, or it throws a GmailMCPError of some
\* code, a ZodError for arguments its schema rejects, or a plain Error.
HandlerOutcomes ==
    {"ok", "ZodError", "Error", "IMAP_ERROR", "NOT_FOUND_ERROR",
     "VALIDATION_ERROR", "SMTP_ERROR"}

\* A dispatcher that turns a GmailMCPError into a result and throws the rest.
CallToolResultRethrow(ready, name, outcome) ==
    LET thrown == IF name \in ToolNames THEN outcome ELSE "Error"
    IN  [name    |-> name,
         thrown  |-> thrown,
         escaped |-> ~ready \/ (thrown # "ok" /\ ~IsGmailMCPError(thrown)),
         isError |-> ready /\ IsGmailMCPError(thrown),
         code    |-> IF ready /\ IsGmailMCPError(thrown) THEN <<thrown>> ELSE <<>>]

\* The CallTool handler: the test of the clients is outside its try; inside,
\* the switch calls the handler of the tool or throws for an unknown name,
\* and the catch returns a result flagged isError, with the code in its text
\* for a GmailMCPError.
CallToolResult(ready, name, outcome) ==
    LET thrown == IF name \in ToolNames THEN outcome ELSE "Error"
    IN  [name    |-> name,
         thrown  |-> IF ready THEN thrown ELSE "Error",
         escaped |-> ~ready,
         isError |-> ready /\ thrown # "ok",
         code    |-> IF ready /\ IsGmailMCPError(thrown) THEN <<thrown>> ELSE <<>>]

DispIdle == [pc |-> "idle", name |-> "none", responses |-> <<>>]

\* ------------------------------------------------------ initial state
ClientInit ==
    /\ phase = "init"
    /\ imap = 0
    /\ connected = FALSE
    /\ nh = 0
    /\ hstate = [h \in Handles |-> "unused"]
    /\ selected = [h \in Handles |-> "none"]
    /\ queue = <<>>
    /\ store \in {st \in [Mailboxes -> [UIDs -> {"absent", "unseen", "seen"}]] :
                    /\ \A u \in UIDs : st["INBOX"][u] = IF u % 2 = 1 THEN "unseen" ELSE "seen"
                    /\ \A u \in UIDs : st["Sent"][u] = IF u = 1 THEN "unseen" ELSE "absent"}
    /\ task = [t \in Callers |-> IdleTask]
    /\ calls = [t \in Callers |-> 0]
    /\ marked = {}

RetryIdle ==
    [pc |-> "idle", maxRetries |-> DefaultMaxRetries, delayMs |-> DefaultDelayMs,
     attempt |-> 0, calls |-> 0, sleeps |-> <<>>, fails |-> <<>>, result |-> "none"]

\* SCHEDULE_ENABLED=true and SCHEDULE_TIMES=15:00
Init ==
    /\ ClientInit
    /\ retry = RetryIdle
    /\ mail = MailIdle
    /\ disp = DispIdle
    /\ proc = ProcIdle(TRUE, << <<"15", "00">> >>)

\* ------------------------------------------------------ connection
\* connect(), past its guard: a new handle replaces this.imap and starts connecting.
NewConnection ==
    /\ nh < MaxHandles
    /\ nh' = nh + 1
    /\ imap' = nh + 1
    /\ hstate' = [hstate EXCEPT ![nh + 1] = "connecting"]

\* The process constructs the client and awaits its first connect().
StartupConnect ==
    /\ phase = "init"
    /\ phase' = "starting"
    /\ NewConnection
    /\ UNCHANGED <<connected, selected, queue, store, task, calls, marked, retry, mail, proc, disp>>

\* openMailbox after its connect step: this.imap.openBox(mailbox, false, cb).
\* `hs` is the handle state at that moment.
IssueOpenBox(t, r, hs) ==
    IF imap = 0
    THEN /\ task' = [task EXCEPT ![t] = Reject(r, "IMAP_ERROR")]
         /\ queue' = queue
    ELSE IF hs[imap] # "ready"
    THEN \* the library refuses a selection on a connection that is not authenticated
         /\ task' = [task EXCEPT ![t] =
                        Reject([r EXCEPT !.openState = hs[imap]], "Error")]
         /\ queue' = queue
    ELSE /\ task' = [task EXCEPT ![t] =
                        [r EXCEPT !.pc = "awaitOpen", !.cmdh = imap,
                                  !.openState = "ready"]]
         /\ queue' = Append(queue, t)

\* One attempt of fn, up to its first suspension: openMailbox(mailbox).
RunAttempt(t, r) ==
    IF imap = 0 \/ ~connected
    THEN /\ NewConnection
         /\ task' = [task EXCEPT ![t] =
                        [r EXCEPT !.pc = "awaitConnect", !.connh = nh + 1]]
         /\ queue' = queue
    ELSE /\ IssueOpenBox(t, r, hstate)
         /\ UNCHANGED <<imap, nh, hstate>>

Waiting(h) == {t \in Callers : task[t].pc = "awaitConnect" /\ task[t].connh = h}

\* 'ready' of handle h: connected = true; resolve().
ReadyEvent(h) ==
    /\ Alive
    /\ hstate[h] = "connecting"
    /\ hstate' = [hstate EXCEPT ![h] = "ready"]
    /\ connected' = TRUE
    /\ phase' = IF phase = "starting" THEN "verifying" ELSE phase
    /\ proc' = IF phase = "starting" THEN [proc EXCEPT !.connect = "ok"] ELSE proc
    /\ IF Waiting(h) = {}
       THEN UNCHANGED <<task, queue>>
       ELSE LET t == CHOOSE x \in Waiting(h) : TRUE
            IN  IssueOpenBox(t, task[t], hstate')
    /\ UNCHANGED <<imap, nh, selected, store, calls, marked, retry, mail, disp>>

\* 'error' of handle h: connected = false; reject(GmailMCPError IMAP_ERROR).
ErrorEvent(h) ==
    /\ Alive
    /\ hstate[h] \in {"connecting", "ready"}
    /\ hstate' = [hstate EXCEPT ![h] = "closed"]
    /\ connected' = FALSE
    /\ phase' = IF phase = "starting" THEN "exited" ELSE phase
    /\ proc' = IF phase = "starting"
               THEN [proc EXCEPT !.connect = "failed", !.exitCode = <<1>>]
               ELSE proc
    /\ task' = [t \in Callers |->
                  IF t \in Waiting(h) THEN Reject(task[t], "IMAP_ERROR") ELSE task[t]]
    /\ UNCHANGED <<imap, nh, selected, queue, store, calls, marked, retry, mail, disp>>

\* 'end' of handle h: connected = false. When disconnect() waits for it, its
\* handler sets this.imap = null and resolves, and the shutdown handler goes
\* on to smtpClient.close() and server.close().
EndEvent(h) ==
    /\ Alive
    /\ hstate[h] \in {"connecting", "ready"}
    /\ hstate' = [hstate EXCEPT ![h] = "closed"]
    /\ connected' = FALSE
    /\ IF phase = "closing" /\ proc.ending = h
       THEN /\ imap' = 0
            /\ phase' = "closingServer"
            /\ proc' = [proc EXCEPT !.ending = 0,
                           !.log = @ \o <<"imapClient.disconnect", "smtpClient.close">>]
       ELSE UNCHANGED <<imap, phase, proc, disp>>
    /\ UNCHANGED <<nh, selected, queue, store, task, calls, marked, retry, mail, disp>>

\* `await smtpClient.verify()` settles; on success the triggers are set up
\* when SCHEDULE_ENABLED and the server is connected to its transport.
VerifyDone(ok) ==
    /\ phase = "verifying"
    /\ phase' = AfterVerify(ok)
    /\ proc' = IF ok
               THEN [proc EXCEPT
                       !.verify = "ok",
                       !.setup = proc.enabled,
                       !.scheduledTasks =
                           IF proc.enabled
                           THEN SetupScheduler([enabled |-> proc.enabled,
                                                times |-> proc.times])
                           ELSE <<>>]
               ELSE [proc EXCEPT !.verify = "failed",
                                 !.verifyError = VerifyRejection,
                                 !.exitCode = <<1>>]
    /\ UNCHANGED <<imap, connected, nh, hstate, selected, queue, store, task,
                   calls, marked, retry, mail, disp>>

\* SIGINT or SIGTERM: the triggers are stopped and disconnect() is awaited;
\* it ends the connection when there is one and returns at once otherwise.
ShutdownSignal ==
    /\ phase = "serving"
    /\ IF imap # 0 /\ connected
       THEN /\ phase' = "closing"
            /\ proc' = [proc EXCEPT
                           !.scheduledTasks = StopTasks(@),
                           !.ending = imap,
                           !.log = <<"task.stop">>]
       ELSE /\ phase' = "closingServer"
            /\ proc' = [proc EXCEPT
                           !.scheduledTasks = StopTasks(@),
                           !.log = <<"task.stop", "imapClient.disconnect",
                                     "smtpClient.close">>]
    /\ UNCHANGED <<imap, connected, nh, hstate, selected, queue, store, task,
                   calls, marked, retry, mail, disp>>

\* `await server.close()` settles: process.exit(0).
ServerClosed ==
    /\ phase = "closingServer"
    /\ phase' = "exited"
    /\ proc' = [proc EXCEPT !.log = @ \o <<"server.close", "process.exit">>,
                            !.exitCode = <<0>>]
    /\ UNCHANGED <<imap, connected, nh, hstate, selected, queue, store, task,
                   calls, marked, retry, mail, disp>>

\* ------------------------------------------------------ calls
\* listEmails(options): the defaults of its destructuring.
ListEmailsOptions(call) ==
    [limit  |-> OrDefault(call.limit, DefaultLimit),
     offset |-> OrDefault(call.offset, DefaultOffset),
     crit   |-> OrDefault(call.crit, DefaultCriteria),
     mbox   |-> OrDefault(call.mbox, DefaultMailbox)]

\* searchEmails that forgets to hand its limit on.
SearchEmailsCallNoLimit(call) ==
    [crit   |-> call.crit,
     mbox   |-> <<OrDefault(call.mbox, DefaultMailbox)>>,
     limit  |-> <<>>,
     offset |-> <<>>]

\* searchEmails(options): the options object it hands to listEmails.
SearchEmailsCall(call) ==
    [crit   |-> call.crit,
     mbox   |-> <<OrDefault(call.mbox, DefaultMailbox)>>,
     limit  |-> <<OrDefault(call.limit, DefaultLimit)>>,
     offset |-> <<>>]

OptMailbox == {<<>>, <<"Sent">>}
OptLimit == {<<>>} \cup {<<n>> : n \in 0..MaxLimit}
OptOffset == {<<>>} \cup {<<n>> : n \in 1..MaxOffset}

\* The caller is free to start a call.
CanCall(t, maxc) ==
    /\ phase = "serving"
    /\ task[t].pc \in {"idle", "done"}
    /\ calls[t] < maxc

\* A call enters withRetry: attempt 0 of fn starts.
Begin(t, op, call, o, uidset) ==
    /\ calls' = [calls EXCEPT ![t] = @ + 1]
    /\ RunAttempt(t, [IdleTask EXCEPT !.op = op, !.call = call,
                         !.mbox = o.mbox, !.crit = o.crit, !.limit = o.limit,
                         !.offset = o.offset, !.argUids = uidset,
                         !.expectRead = /\ op = "get"
                                        /\ \A u \in uidset : <<o.mbox, u>> \in marked])
    /\ UNCHANGED <<phase, connected, selected, store, marked, retry, mail, disp>>

\* The list tool: imapClient.listEmails(options).
CallListEmails(maxc) ==
    \E crit \in {<<>>, <<"UNSEEN">>}, mbox \in OptMailbox,
       limit \in OptLimit, offset \in OptOffset :
        LET call == [crit |-> crit, mbox |-> mbox, limit |-> limit, offset |-> offset]
        IN  /\ CanCall("tool", maxc)
            /\ Begin("tool", "list", call, ListEmailsOptions(call), {})
            /\ UNCHANGED proc

\* The search tool: imapClient.searchEmails(options).
CallSearchEmails(maxc) ==
    \E crit \in {<<"ALL">>, <<"UNSEEN">>}, mbox \in OptMailbox, limit \in OptLimit :
        LET call == [crit |-> crit, mbox |-> mbox, limit |-> limit, offset |-> <<>>]
        IN  /\ CanCall("tool", maxc)
            /\ Begin("tool", "search", call, ListEmailsOptions(SearchEmailsCall(call)), {})
            /\ UNCHANGED proc

\* The read tool: imapClient.getEmail(uid, mailbox).
CallGetEmail(maxc) ==
    \E uid \in UIDs, mbox \in OptMailbox :
        LET call == [NoCall EXCEPT !.mbox = mbox]
            o == [ListEmailsOptions(NoCall) EXCEPT !.mbox = OrDefault(mbox, DefaultMailbox)]
        IN  /\ CanCall("tool", maxc)
            /\ Begin("tool", "get", call, o, {uid})
            /\ UNCHANGED proc

\* The mark-read tool: imapClient.markAsRead(uids, mailbox).
CallMarkAsRead(maxc) ==
    \E uidset \in SUBSET UIDs \ {{}}, mbox \in OptMailbox :
        LET call == [NoCall EXCEPT !.mbox = mbox]
            o == [ListEmailsOptions(NoCall) EXCEPT !.mbox = OrDefault(mbox, DefaultMailbox)]
        IN  /\ CanCall("tool", maxc)
            /\ Begin("tool", "mark", call, o, uidset)
            /\ UNCHANGED proc

\* A firing that lists the whole mailbox, with the default limit.
ScheduledCallAllMail == NoCall

\* The options of the firing's listEmails: {searchCriteria, limit: 50}.
ScheduledCall ==
    [NoCall EXCEPT !.crit = <<ScheduledCriteria>>, !.limit = <<ScheduledLimit>>]

\* Trigger i fires: fetchUnreadEmailsFromLast24Hours calls
\* listEmails({searchCriteria, limit: 50}) inside its try; whatever the call
\* throws is caught and logged there.
ScheduledFiring(i, maxf) ==
    LET call == ScheduledCall
    IN  /\ Running
        /\ Registered(proc.scheduledTasks, i, task["sched"].result)
        /\ task["sched"].pc \in {"idle", "done"}
        /\ calls["sched"] < maxf
        /\ proc' = [proc EXCEPT !.fired =
                        Append(@, [trigger |-> i, after |-> task["sched"].result])]
        /\ Begin("sched", "list", call, ListEmailsOptions(call), {})

\* The sleep of withRetry ends: the next attempt of fn starts.
WakeUp(t) ==
    /\ Running
    /\ task[t].pc = "sleep"
    /\ RunAttempt(t, task[t])
    /\ UNCHANGED <<phase, connected, selected, store, calls, marked, retry, mail, proc, disp>>

\* ------------------------------------------------------ commands
\* The command of t is the oldest queued on its connection, and the connection is up.
AtHead(t) ==
    /\ hstate[task[t].cmdh] = "ready"
    /\ \E i \in 1..Len(queue) :
          /\ queue[i] = t
          /\ \A j \in 1..(i - 1) : task[queue[j]].cmdh # task[t].cmdh

\* A mailbox is selected on the connection: without one the store answers a
\* search, fetch or flag command with an error only.
Selectable(h) == selected[h] # "none"

Dequeue(t) == SelectSeq(queue, LAMBDA x : x # t)

\* this.imap.search / fetch / addFlags after the mailbox was opened. `q` and
\* `sel` are the queue and the selected mailboxes at that moment; `nullKind` is
\* the error of the call when this.imap is null.
IssueCommand(t, r, next, q, sel, nullKind) ==
    IF imap = 0
    THEN /\ task' = [task EXCEPT ![t] = Reject(r, nullKind)]
         /\ queue' = q
    ELSE IF sel[imap] = "none"
    THEN \* the library refuses a command while no mailbox is selected
         /\ task' = [task EXCEPT ![t] = Reject(r, "Error")]
         /\ queue' = q
    ELSE /\ task' = [task EXCEPT ![t] = [r EXCEPT !.pc = next, !.cmdh = imap]]
         /\ queue' = Append(q, t)

NextCommand(op) ==
    CASE op \in {"list", "search"} -> "awaitSearch"
      [] op = "get" -> "awaitFetch"
      [] op = "mark" -> "awaitFlags"

\* The store answers openBox; the callback of openMailbox runs and fn goes on.
ServeOpenBox(t, ok) ==
    LET r == task[t]
        h == r.cmdh
    IN  /\ Running
        /\ r.pc = "awaitOpen"
        /\ AtHead(t)
        /\ selected' = [selected EXCEPT ![h] = IF ok THEN r.mbox ELSE "none"]
        /\ IF ok
           THEN IssueCommand(t, r, NextCommand(r.op), Dequeue(t), selected', "IMAP_ERROR")
           ELSE /\ task' = [task EXCEPT ![t] = Reject(r, "IMAP_ERROR")]
                /\ queue' = Dequeue(t)
        /\ UNCHANGED <<phase, imap, connected, nh, hstate, store, calls, marked, retry, mail, proc, disp>>

Matches(flag, crit) ==
    CASE crit = "ALL" -> flag # "absent"
      [] crit = "UNSEEN" -> flag = "unseen"
      [] crit = "UNSEEN_SINCE" -> flag = "unseen"

\* The UIDs the store reports for a search of mailbox m.
SearchResults(m, crit) == Ascending({u \in UIDs : Matches(store[m][u], crit)})

\* The store answers the search; the callback of listEmails runs.
ServeSearch(t, ok) ==
    LET r == task[t]
        h == r.cmdh
        results == SearchResults(selected[h], r.crit)
        uids == SelectUids(results, r.offset, r.limit)
        r1 == [r EXCEPT !.results = results, !.uids = uids, !.searched = TRUE,
                        !.execMbox = selected[h]]
    IN  /\ Running
        /\ r.pc = "awaitSearch"
        /\ AtHead(t)
        /\ ok => Selectable(h)
        /\ IF ~ok
           THEN /\ task' = [task EXCEPT ![t] = Reject(r, "IMAP_ERROR")]
                /\ queue' = Dequeue(t)
           ELSE IF Len(results) = 0 \/ Len(uids) = 0
           THEN /\ task' = [task EXCEPT ![t] = Resolve(r1)]
                /\ queue' = Dequeue(t)
           ELSE IssueCommand(t, r1, "awaitFetch", Dequeue(t), selected, "Error")
        /\ UNCHANGED <<phase, imap, connected, nh, hstate, selected, store, calls, marked, retry, mail, proc, disp>>

\* parseEmail: unread is the absence of \Seen among the flags delivered.
Unread(flags) == "\\Seen" \notin flags

\* A parsed message that is always reported unread.
ParseEmailAlwaysUnread(uid, flags) ==
    [uid |-> uid, flags |-> flags, unread |-> TRUE]

\* parseEmail(parsed, uid, flags): the Message, with its flags and unread.
ParseEmail(uid, flags) ==
    [uid |-> uid, flags |-> flags, unread |-> Unread(flags)]

\* The flags the store holds for a message.
FlagsOf(flag) == IF flag = "seen" THEN {"\\Seen"} ELSE {}

Outcomes == {"ok", "noattrs", "parsefail"}

\* The store answers the fetch of listEmails: one message per requested UID
\* that exists in the selected mailbox; each arrives with or without its
\* attributes, and its parse will succeed or fail.
ServeFetchList(t, ok) ==
    LET r == task[t]
        m == selected[r.cmdh]
        found == {u \in Range(r.uids) : store[m][u] # "absent"}
    IN  /\ Running
        /\ r.pc = "awaitFetch"
        /\ r.op \in {"list", "search"}
        /\ ~r.answered
        /\ AtHead(t)
        /\ ok => Selectable(r.cmdh)
        /\ queue' = Dequeue(t)
        /\ IF ~ok
           THEN task' = [task EXCEPT ![t] =
                            Reject([r EXCEPT !.answered = TRUE], "IMAP_ERROR")]
           ELSE \E out \in [found -> Outcomes] :
                  LET noattrs == {u \in found : out[u] = "noattrs"}
                      r1 == [r EXCEPT
                               !.answered = TRUE,
                               !.execMbox = m,
                               !.delivered = found,
                               !.failed = {u \in found : out[u] # "ok"},
                               !.processed = Cardinality(noattrs),
                               !.parsing = {[uid |-> u,
                                             flags |-> FlagsOf(store[m][u]),
                                             ok |-> out[u] = "ok"] :
                                            u \in found \ noattrs}]
                  IN  task' = [task EXCEPT ![t] =
                                 IF r1.processed = Len(r.uids) THEN Resolve(r1) ELSE r1]
        /\ UNCHANGED <<phase, imap, connected, nh, hstate, selected, store, calls, marked, retry, mail, proc, disp>>

\* A message end whose parse failure fails the whole call.
ListMessageEndAbort(r, p) ==
    IF p.ok
    THEN [r EXCEPT
            !.emails = Append(@, ParseEmail(p.uid, p.flags)),
            !.processed = @ + 1,
            !.parsing = @ \ {p}]
    ELSE [r EXCEPT !.pc = "done", !.result = "IMAP_ERROR", !.parsing = @ \ {p}]

\* The rest of msg 'end' in listEmails once simpleParser has settled: the
\* email is pushed when the parse succeeded, and the message counts as processed.
ListMessageEnd(r, p) ==
    [r EXCEPT
       !.emails = IF p.ok
                  THEN Append(@, ParseEmail(p.uid, p.flags))
                  ELSE @,
       !.processed = @ + 1,
       !.parsing = @ \ {p}]

\* simpleParser settles for one message of listEmails.
ParseDoneList(t) ==
    \E p \in task[t].parsing :
    LET r == task[t]
        r1 == ListMessageEnd(r, p)
    IN  /\ Running
        /\ r.pc = "awaitFetch"
        /\ r.op \in {"list", "search"}
        /\ task' = [task EXCEPT ![t] =
                       IF r1.processed = Len(r.uids) THEN Resolve(r1) ELSE r1]
        /\ UNCHANGED <<phase, imap, connected, nh, hstate, selected, queue, store,
                       calls, marked, retry, mail, proc, disp>>

\* The store answers the fetch of getEmail: with the message when the UID
\* exists in the selected mailbox, with nothing when it does not, or with an
\* error whose text does or does not include "not found".
ServeFetchOne(t, answer) ==
    LET r == task[t]
        m == selected[r.cmdh]
        uid == CHOOSE u \in r.argUids : TRUE
        r1 == [r EXCEPT !.answered = TRUE,
                        !.execMbox = IF answer = "error" THEN "none" ELSE m]
    IN  /\ Running
        /\ r.pc = "awaitFetch"
        /\ r.op = "get"
        /\ ~r.answered
        /\ AtHead(t)
        /\ answer # "error" => Selectable(r.cmdh)
        /\ queue' = Dequeue(t)
        /\ CASE answer = "error not found" ->
                  /\ store[m][uid] = "absent"
                  /\ task' = [task EXCEPT ![t] = Reject(r1, "NOT_FOUND_ERROR")]
             [] answer = "error" ->
                  task' = [task EXCEPT ![t] = Reject(r1, "IMAP_ERROR")]
             [] answer = "messages" ->
                  IF store[m][uid] = "absent"
                  THEN task' = [task EXCEPT ![t] = r1]
                  ELSE \E attrs \in BOOLEAN, parses \in BOOLEAN :
                         task' = [task EXCEPT ![t] =
                           [r1 EXCEPT
                              !.delivered = {uid},
                              !.parsing = {[uid |-> uid,
                                            flags |-> IF attrs THEN FlagsOf(store[m][uid])
                                                      ELSE {},
                                            ok |-> parses]}]]
        /\ UNCHANGED <<phase, imap, connected, nh, hstate, selected, store, calls, marked, retry, mail, proc, disp>>

\* simpleParser settles for the message of getEmail: resolve(email) or reject.
ParseDoneOne(t) ==
    \E p \in task[t].parsing :
    LET r == task[t]
        r1 == [r EXCEPT !.parsing = {}]
    IN  /\ Running
        /\ r.pc = "awaitFetch"
        /\ r.op = "get"
        /\ task' = [task EXCEPT ![t] =
                       IF p.ok
                       THEN Resolve([r1 EXCEPT !.emails =
                                <<ParseEmail(p.uid, p.flags)>>])
                       ELSE Reject(r1, "IMAP_ERROR")]
        /\ UNCHANGED <<phase, imap, connected, nh, hstate, selected, queue, store,
                       calls, marked, retry, mail, proc, disp>>

\* addFlags(uids, '\\Seen') on mailbox m of the store.
AddSeen(st, m, uidset) ==
    [st EXCEPT ![m] = [u \in UIDs |->
        IF u \in uidset /\ st[m][u] = "unseen" THEN "seen" ELSE st[m][u]]]

\* The store answers addFlags: the callback of markAsRead runs.
ServeAddFlags(t, ok) ==
    LET r == task[t]
        m == selected[r.cmdh]
    IN  /\ Running
        /\ r.pc = "awaitFlags"
        /\ AtHead(t)
        /\ ok => Selectable(r.cmdh)
        /\ queue' = Dequeue(t)
        /\ IF ok
           THEN /\ store' = AddSeen(store, m, r.argUids)
                /\ task' = [task EXCEPT ![t] = Resolve([r EXCEPT !.execMbox = m])]
                /\ marked' = {<<r.mbox, u>> : u \in r.argUids}
           ELSE /\ task' = [task EXCEPT ![t] = Reject(r, "IMAP_ERROR")]
                /\ UNCHANGED <<store, marked>>
        /\ UNCHANGED <<phase, imap, connected, nh, hstate, selected, calls, retry, mail, proc, disp>>

\* ------------------------------------------------------ specification
\* The process with the tool dispatcher as its only caller, one call at a time.
NextTool(maxc) ==
    \/ StartupConnect
    \/ \E h \in Handles : ReadyEvent(h)
    \/ \E h \in Handles : ErrorEvent(h)
    \/ \E h \in Handles : EndEvent(h)
    \/ \E ok \in BOOLEAN : VerifyDone(ok)
    \/ CallListEmails(maxc)
    \/ CallSearchEmails(maxc)
    \/ CallGetEmail(maxc)
    \/ CallMarkAsRead(maxc)
    \/ \E t \in Callers, ok \in BOOLEAN : ServeOpenBox(t, ok)
    \/ \E t \in Callers, ok \in BOOLEAN : ServeSearch(t, ok)
    \/ \E t \in Callers, ok \in BOOLEAN : ServeFetchList(t, ok)
    \/ \E t \in Callers : ParseDoneList(t)
    \/ \E t \in Callers, a \in {"messages", "error", "error not found"} : ServeFetchOne(t, a)
    \/ \E t \in Callers : ParseDoneOne(t)
    \/ \E t \in Callers, ok \in BOOLEAN : ServeAddFlags(t, ok)

\* The process with both callers: a scheduled firing may overlap a tool call,
\* and a failed attempt may be taken again by withRetry.
Next ==
    \/ NextTool(MaxToolCalls)
    \/ \E i \in 1..MaxTimes : ScheduledFiring(i, MaxFirings)
    \/ \E t \in Callers : WakeUp(t)

Spec == Init /\ [][Next]_vars

SpecTool == Init /\ [][NextTool(MaxSerialCalls)]_vars

\* The store loses a message while the process runs: another client of the
\* account deletes and expunges it.
Expunge(m, u) ==
    /\ Running
    /\ store[m][u] # "absent"
    /\ store' = [store EXCEPT ![m][u] = "absent"]
    /\ UNCHANGED <<phase, imap, connected, nh, hstate, selected, queue, task,
                   calls, marked, retry, mail, proc, disp>>

\* The tool dispatcher as the only caller, on a store that may lose messages.
NextLive ==
    \/ NextTool(MaxSerialCalls)
    \/ \E m \in Mailboxes, u \in UIDs : Expunge(m, u)

\* The event loop runs every callback that is ready, and a connection that is
\* up answers the oldest command queued on it.
FairLive ==
    /\ WF_vars(\E h \in Handles : ReadyEvent(h))
    /\ WF_vars(\E t \in Callers, ok \in BOOLEAN : ServeOpenBox(t, ok))
    /\ WF_vars(\E t \in Callers, ok \in BOOLEAN : ServeSearch(t, ok))
    /\ WF_vars(\E t \in Callers, ok \in BOOLEAN : ServeFetchList(t, ok))
    /\ WF_vars(\E t \in Callers : ParseDoneList(t))
    /\ WF_vars(\E t \in Callers, a \in {"messages", "error", "error not found"} :
                  ServeFetchOne(t, a))
    /\ WF_vars(\E t \in Callers : ParseDoneOne(t))
    /\ WF_vars(\E t \in Callers, ok \in BOOLEAN : ServeAddFlags(t, ok))

SpecLive == Init /\ [][NextLive]_vars /\ FairLive

\* ------------------------------------------------------ setupScheduler alone
\* Schedule times: "15:00", "23:59", "25:00", "15:60", "-1:30", "15", "x:00"
\* and ":30".
ScheduleTimes ==
    {<<"15", "00">>, <<"23", "59">>, <<"25", "00">>, <<"15", "60">>,
     <<"-1", "30">>, <<"15">>, <<"x", "00">>, <<"", "30">>}

TimeLists == UNION {[1..k -> ScheduleTimes] : k \in 0..MaxTimes}

InitSched ==
    /\ ClientInit
    /\ retry = RetryIdle
    /\ mail = MailIdle
    /\ disp = DispIdle
    /\ proc \in {ProcIdle(enabled, times) : enabled \in BOOLEAN, times \in TimeLists}

\* A program that constructs the Mailbox Client, calls
\* setupScheduler(config, imapClient) and keeps running.
CallSetupScheduler ==
    /\ phase = "init"
    /\ phase' = "serving"
    /\ proc' = [proc EXCEPT
                  !.setup = TRUE,
                  !.scheduledTasks = SetupScheduler([enabled |-> proc.enabled,
                                                     times |-> proc.times])]
    /\ UNCHANGED <<imap, connected, nh, hstate, selected, queue, store, task,
                   calls, marked, retry, mail, disp>>

NextSched ==
    \/ CallSetupScheduler
    \/ \E i \in 1..MaxTimes : ScheduledFiring(i, MaxFirings)

SpecSched == InitSched /\ [][NextSched]_vars

\* ------------------------------------------------------ process life cycle
\* SCHEDULE_TIMES of the process: "15:00", "25:00,15:00" and "15:00,23:59".
ProcTimes ==
    {<< <<"15", "00">> >>,
     << <<"25", "00">>, <<"15", "00">> >>,
     << <<"15", "00">>, <<"23", "59">> >>}

InitProc ==
    /\ ClientInit
    /\ retry = RetryIdle
    /\ mail = MailIdle
    /\ disp = DispIdle
    /\ proc \in {ProcIdle(enabled, times) : enabled \in BOOLEAN, times \in ProcTimes}

\* The process from startup to shutdown, with the scheduled triggers as the
\* only callers of the Mailbox Client.
NextProc ==
    \/ StartupConnect
    \/ \E h \in Handles : ReadyEvent(h)
    \/ \E h \in Handles : ErrorEvent(h)
    \/ \E h \in Handles : EndEvent(h)
    \/ \E ok \in BOOLEAN : VerifyDone(ok)
    \/ \E i \in 1..MaxTimes : ScheduledFiring(i, MaxProcFirings)
    \/ \E t \in Callers, ok \in BOOLEAN : ServeOpenBox(t, ok)
    \/ \E t \in Callers, ok \in BOOLEAN : ServeSearch(t, ok)
    \/ \E t \in Callers, ok \in BOOLEAN : ServeFetchList(t, ok)
    \/ \E t \in Callers : ParseDoneList(t)
    \/ ShutdownSignal
    \/ ServerClosed

SpecProc == InitProc /\ [][NextProc]_vars

\* ------------------------------------------------------ dispatcher alone
\* imapClient and smtpClient are assigned during startup, before the server
\* is connected to its transport.
ClientsReady == phase # "init"

\* A CallTool request arrives. An unknown name is answered at once; for a
\* known one the handler of the tool is awaited.
ToolRequest(name) ==
    /\ phase = "serving"
    /\ disp.pc = "idle"
    /\ Len(disp.responses) < MaxRequests
    /\ disp' = IF name \in ToolNames /\ ClientsReady
               THEN [disp EXCEPT !.pc = "handling", !.name = name]
               ELSE [disp EXCEPT !.responses =
                        Append(@, CallToolResult(ClientsReady, name, "Error"))]
    /\ UNCHANGED <<phase, imap, connected, nh, hstate, selected, queue, store, task,
                   calls, marked, retry, mail, proc>>

\* The handler of the tool settles: the dispatcher returns its result.
ToolSettles(outcome) ==
    /\ disp.pc = "handling"
    /\ disp' = [disp EXCEPT !.pc = "idle", !.name = "none",
                   !.responses = Append(@, CallToolResult(ClientsReady, disp.name, outcome))]
    /\ UNCHANGED <<phase, imap, connected, nh, hstate, selected, queue, store, task,
                   calls, marked, retry, mail, proc>>

\* The process with its dispatcher and the outcomes of the tool handlers.
NextDispatch ==
    \/ StartupConnect
    \/ \E h \in Handles : ReadyEvent(h)
    \/ \E h \in Handles : ErrorEvent(h)
    \/ \E h \in Handles : EndEvent(h)
    \/ \E ok \in BOOLEAN : VerifyDone(ok)
    \/ \E name \in ToolNames \cup {"gmail_delete_email"} : ToolRequest(name)
    \/ \E outcome \in HandlerOutcomes : ToolSettles(outcome)

SpecDispatch == Init /\ [][NextDispatch]_vars

\* ------------------------------------------------------ withRetry alone
ErrorKinds ==
    {"RATE_LIMIT_ERROR", "AUTH_ERROR", "VALIDATION_ERROR", "NOT_FOUND_ERROR",
     "IMAP_ERROR", "RETRYABLE_ERROR", "Error"}

\* withRetry(fn, maxRetries, delayMs) is called on an operation fn.
RetryInit ==
    /\ ClientInit
    /\ retry \in {[RetryIdle EXCEPT !.pc = "running", !.maxRetries = m, !.delayMs = d] :
                    m \in 1..MaxTries, d \in {1, DefaultDelayMs}}
    /\ mail = MailIdle
    /\ disp = DispIdle
    /\ proc = ProcIdle(TRUE, << <<"15", "00">> >>)

\* One pass of the loop body: fn() settles with `outcome`; the catch block decides.
RetryAttempt(outcome) ==
    LET d == RetryDecision(outcome, retry.attempt, retry.maxRetries, retry.delayMs)
    IN  /\ retry.pc = "running"
        /\ retry.attempt < retry.maxRetries
        /\ retry' =
             IF outcome = "ok"
             THEN [retry EXCEPT !.pc = "returned", !.calls = @ + 1, !.result = "ok"]
             ELSE IF d.act = "throw"
             THEN [retry EXCEPT !.pc = "thrown", !.calls = @ + 1,
                                !.fails = Append(@, outcome), !.result = outcome]
             ELSE [retry EXCEPT !.pc = "sleeping", !.calls = @ + 1,
                                !.fails = Append(@, outcome),
                                !.sleeps = Append(@, d.wait)]
        /\ UNCHANGED <<phase, imap, connected, nh, hstate, selected, queue, store,
                       task, calls, marked, mail, proc, disp>>

\* The timer of the sleep fires: the loop goes on with attempt + 1.
RetrySleepEnd ==
    /\ retry.pc = "sleeping"
    /\ retry' = [retry EXCEPT !.pc = "running", !.attempt = @ + 1]
    /\ UNCHANGED <<phase, imap, connected, nh, hstate, selected, queue, store,
                   task, calls, marked, mail, proc, disp>>

NextRetry ==
    \/ \E outcome \in ErrorKinds \cup {"ok"} : RetryAttempt(outcome)
    \/ RetrySleepEnd

SpecRetry == RetryInit /\ [][NextRetry]_vars

\* Every attempt of the operation settles and every timer of a sleep fires.
SpecRetryLive ==
    /\ RetryInit
    /\ [][NextRetry]_vars
    /\ WF_vars(\E outcome \in ErrorKinds \cup {"ok"} : RetryAttempt(outcome))
    /\ WF_vars(RetrySleepEnd)

\* ------------------------------------------------------ Transmission Client alone
SendTo ==
    {Undefined, Str(<<>>), Str(<<"a@x.org">>), Arr(<<>>),
     Arr(<< <<"a@x.org">>, <<"b@x.org">> >>)}

SendSubjects == {Undefined, Str(<<>>), Str(<<"Meeting">>)}

Bodies == {Undefined, Str(<<>>), Str(<<"text">>)}

HtmlBodies == {Undefined, Str(<<"html">>)}

ReplySubjects ==
    {<<>>, <<"Hello">>, <<"Re:", " ", "Meeting">>, <<"Re:", "Hello">>,
     <<"Re:", " ", "Re:", " ", "Meeting">>}

\* The original messages a reply is made to.
Originals ==
    {[from |-> f, subject |-> sub, messageId |-> id, references |-> refs] :
        f \in {Undefined, Str(<<>>), Str(<<"s@x.org">>)},
        sub \in {Undefined, Str(<<>>), Str(<<"Meeting">>),
                 Str(<<"Re:", " ", "Meeting">>)},
        id \in {Undefined, Str(<<"<b>">>)},
        refs \in {Undefined, Arr(<<>>), Arr(<< <<"<a>">> >>),
                  Arr(<< <<"<a>">>, <<"<c>">> >>)}}

MailFrame ==
    UNCHANGED <<phase, imap, connected, nh, hstate, selected, queue, store, task,
                calls, marked, retry, proc, disp>>

\* smtpClient.sendEmail(options)
CallSendEmail ==
    /\ mail.pc = "idle"
    /\ \E to \in SendTo, subject \in SendSubjects, body \in Bodies, html \in HtmlBodies :
          mail' = SendEmail([MailIdle EXCEPT !.op = "send"],
                            [NoRequest EXCEPT !.to = to, !.subject = subject,
                                              !.body = body, !.htmlBody = html])
    /\ MailFrame

\* The send tool: its own body test, then smtpClient.sendEmail.
HandleSendEmail ==
    /\ mail.pc = "idle"
    /\ \E to \in SendTo \ {Undefined}, subject \in SendSubjects \ {Undefined},
          body \in Bodies, html \in HtmlBodies :
          LET m == [MailIdle EXCEPT !.op = "sendTool"]
          IN  mail' = IF ~Truthy(body) /\ ~Truthy(html)
                      THEN [m EXCEPT !.pc = "thrown", !.result = "Error"]
                      ELSE SendEmail(m, [NoRequest EXCEPT !.to = to, !.subject = subject,
                                                          !.body = body, !.htmlBody = html])
    /\ MailFrame

\* smtpClient.replyEmail(options, originalEmail)
CallReplyEmail ==
    /\ mail.pc = "idle"
    /\ \E subject \in ReplySubjects, body \in Bodies, html \in HtmlBodies,
          original \in Originals :
          mail' = ReplyEmail([MailIdle EXCEPT !.op = "reply"],
                             [subject |-> subject, body |-> body, htmlBody |-> html],
                             original)
    /\ MailFrame

\* A reply tool that goes on whatever getEmail did.
GetEmailResolvedAlways(got) == TRUE

\* `await imapClient.getEmail(...)` resolved: otherwise it threw, and the
\* reply tool throws with it.
GetEmailResolved(got) == got = "ok"

\* The outcomes of the reply tool's getEmail, besides never settling.
GetEmailOutcomes == {"ok", "NOT_FOUND_ERROR", "IMAP_ERROR", "Error"}

\* The reply tool: its own body test comes first, then it awaits
\* imapClient.getEmail(originalUid, mailbox).
HandleReplyEmail ==
    /\ mail.pc = "idle"
    /\ \E parsedSubject \in {Undefined} \cup {Str(t) : t \in ReplySubjects},
          body \in Bodies, html \in HtmlBodies :
          LET m == [MailIdle EXCEPT !.op = "replyTool", !.toolSubject = parsedSubject,
                                    !.req = [NoRequest EXCEPT !.body = body,
                                                              !.htmlBody = html]]
          IN  mail' = IF ~Truthy(body) /\ ~Truthy(html)
                      THEN [m EXCEPT !.pc = "thrown", !.result = "Error"]
                      ELSE [m EXCEPT !.pc = "reading"]
    /\ MailFrame

\* getEmail settles for the reply tool: with `original`, and the tool makes
\* the subject and calls smtpClient.replyEmail, or with an error.
GetEmailSettles(got) ==
    /\ mail.pc = "reading"
    /\ \E original \in Originals :
          mail' = IF ~GetEmailResolved(got)
                  THEN [mail EXCEPT !.pc = "thrown", !.result = got, !.read = got]
                  ELSE ReplyEmail([mail EXCEPT !.read = got],
                          [subject  |-> ReplyToolSubject(mail.toolSubject, original.subject),
                           body     |-> mail.req.body,
                           htmlBody |-> mail.req.htmlBody],
                          original)
    /\ MailFrame

\* transporter.sendMail settles: the message identifier is returned, or the
\* error is wrapped and withRetry's catch block decides; after a sleep the
\* next attempt submits the message again.
SubmitSettles(outcome) ==
    LET kind == WrapSubmitError(outcome)
        d == RetryDecision(kind, mail.attempt, DefaultMaxRetries, DefaultDelayMs)
    IN  /\ mail.pc = "submitting"
        /\ mail' =
             IF outcome = "ok"
             THEN [mail EXCEPT !.pc = "returned", !.result = "ok"]
             ELSE IF d.act = "throw"
             THEN [mail EXCEPT !.pc = "thrown", !.result = kind]
             ELSE [mail EXCEPT !.attempt = @ + 1,
                               !.sent = Append(@, MailOptions(mail.req))]
        /\ MailFrame

NextMail ==
    \/ CallSendEmail
    \/ HandleSendEmail
    \/ CallReplyEmail
    \/ HandleReplyEmail
    \/ \E got \in GetEmailOutcomes : GetEmailSettles(got)
    \/ \E outcome \in {"ok", "Error"} : SubmitSettles(outcome)

SpecMail == Init /\ [][NextMail]_vars

\* ====================================================== properties
IsList(r) == r.op \in {"list", "search"}

EmailUids(r) == {r.emails[i].uid : i \in 1..Len(r.emails)}

\* The UIDs at the 0-based positions offset .. offset+limit-1 of the reversed
\* search result, read off the result itself: position j of the reversed
\* result is element N - j of the result.
ExpectedUids(r) ==
    LET N == Len(r.results)
    IN  {r.results[N - j] : j \in {k \in r.offset..(r.offset + r.limit - 1) : k < N}}

\* Every message the call selected (r.uids) was delivered and parsed; a call
\* that selected none has nothing to wait for.
AllDeliveredAndParsed(r) ==
    \/ r.uids = <<>>
    \/ /\ r.answered
       /\ r.delivered = Range(r.uids)
       /\ r.failed = {}
       /\ r.parsing = {}

\* C1: for a search result of size N >= 1 whose selected messages are all
\* delivered and parse, listEmails(limit = L, offset = O) returns exactly
\* min(L, max(0, N - O)) messages, and their UIDs are those at positions
\* O .. O+L-1 of the reversed search result.
C1_ListCountAndUids ==
    \A t \in Callers :
        LET r == task[t]
            N == Len(r.results)
        IN  (IsList(r) /\ r.searched /\ N >= 1 /\ AllDeliveredAndParsed(r)) =>
               /\ r.pc = "done"
               /\ r.result = "ok"
               /\ Len(r.emails) = Min(r.limit, Max(0, N - r.offset))
               /\ EmailUids(r) = ExpectedUids(r)

\* A list call returned one of two matches: the limit cut the reversed result.
C1_Witness ==
    \E t \in Callers :
        /\ task[t].op = "list"
        /\ task[t].pc = "done"
        /\ task[t].result = "ok"
        /\ Len(task[t].results) = 2
        /\ task[t].limit = 1
        /\ task[t].offset = 0
        /\ Len(task[t].emails) = 1
        /\ task[t].emails[1].uid = task[t].results[2]

\* C2: each operation's search, fetch or flag command is executed against the
\* mailbox that operation itself selected (overlapping operations that name
\* different mailboxes wait for each other).
C2_OwnMailbox ==
    \A t \in Callers :
        task[t].execMbox # "none" => task[t].execMbox = task[t].mbox

\* C3: the client reports Connected only if its current handle has delivered
\* 'ready' and has had neither an error nor an end since.
C3_ConnectedMeansReady ==
    connected => (imap # 0 /\ hstate[imap] = "ready")

\* C4: at most one connection is open at a time, and no open connection is
\* dropped: every handle that is connecting or ready is the current handle.
C4_OneLiveHandle ==
    \A h \in Handles : hstate[h] \in {"connecting", "ready"} => h = imap

\* C5: a call issues its mailbox selection only on a handle that is Connected.
C5_OpenOnlyWhenConnected ==
    \A t \in Callers : task[t].openState \in {"none", "ready"}

\* C6: once the store has answered the fetch of getEmail for a UID that does
\* not exist in the mailbox, the call has failed with NOT_FOUND_ERROR.
C6_MissingUidNotFound ==
    \A t \in Callers :
        LET r == task[t]
        IN  (r.op = "get" /\ r.answered /\ \A u \in r.argUids : store[r.mbox][u] = "absent")
               => (r.pc = "done" /\ r.result = "NOT_FOUND_ERROR")

\* C7: a getEmail(u, mailbox) that starts after a successful
\* markAsRead(S, mailbox) with u in S returns unread = false.
C7_MarkedThenRead ==
    \A t \in Callers :
        LET r == task[t]
        IN  (r.op = "get" /\ r.expectRead /\ r.pc = "done" /\ r.result = "ok")
               => ~r.emails[1].unread

\* C8: in listEmails a message delivered without attributes, or whose parse
\* fails, is dropped: the call does not fail, and once every selected message
\* has been handled it has returned every other selected message.
C8_DroppedNotFatal ==
    \A t \in Callers :
        LET r == task[t]
        IN  (IsList(r) /\ r.answered /\ r.delivered = Range(r.uids)) =>
               /\ r.result \in {"none", "ok"}
               /\ r.parsing = {} =>
                     /\ r.pc = "done"
                     /\ r.result = "ok"
                     /\ EmailUids(r) = Range(r.uids) \ r.failed

\* A list call returned one message and dropped another.
C8_Witness ==
    \E t \in Callers :
        /\ IsList(task[t])
        /\ task[t].pc = "done"
        /\ task[t].result = "ok"
        /\ task[t].failed # {}
        /\ task[t].emails # <<>>
        /\ task[t].delivered = Range(task[t].uids)

\* C9: searchEmails(criteria, mailbox, limit) runs listEmails with that
\* criteria, mailbox and limit and with offset 0: it works on the options
\* listEmails would take from such a call, so it issues the same commands,
\* and it selects the first `limit` UIDs of the reversed search result.
C9_SearchIsListAtOffsetZero ==
    \A t \in Callers :
        LET r == task[t]
            o == ListEmailsOptions([r.call EXCEPT !.offset = <<0>>])
        IN  r.op = "search" =>
               /\ r.crit = o.crit /\ r.mbox = o.mbox
               /\ r.limit = o.limit /\ r.offset = o.offset
               /\ r.searched => r.uids = SelectUids(r.results, 0, o.limit)
               /\ (r.pc = "done" /\ r.result = "ok") =>
                     EmailUids(r) \subseteq Range(SelectUids(r.results, 0, o.limit))

\* A search call with an explicit limit returned one of two matches.
C9_Witness ==
    \E t \in Callers :
        /\ task[t].op = "search"
        /\ task[t].pc = "done"
        /\ task[t].result = "ok"
        /\ task[t].call.limit = <<1>>
        /\ Len(task[t].results) = 2
        /\ Len(task[t].emails) = 1

\* C10: withRetry on an operation that fails with RateLimit k times
\* (k < maxRetries) and then succeeds returns the success value after exactly
\* k + 1 invocations, and the sleep before invocation i + 1 is
\* delayMs * 2^(i-1) for i = 1..k.
OnlyRateLimit(fails) == \A i \in 1..Len(fails) : fails[i] = "RATE_LIMIT_ERROR"

C10_RateLimitBackoff ==
    LET k == Len(retry.fails)
    IN  (OnlyRateLimit(retry.fails) /\ k < retry.maxRetries) =>
           /\ retry.pc # "thrown"
           /\ Len(retry.sleeps) = k
           /\ \A i \in 1..k : retry.sleeps[i] = retry.delayMs * 2^(i - 1)
           /\ retry.pc = "returned" => (retry.result = "ok" /\ retry.calls = k + 1)

\* RateLimit twice, then success: slept delay, then delay * 2.
C10_Witness ==
    /\ retry.pc = "returned"
    /\ retry.fails = <<"RATE_LIMIT_ERROR", "RATE_LIMIT_ERROR">>
    /\ retry.sleeps = <<retry.delayMs, retry.delayMs * 2>>
    /\ retry.calls = 3

\* The kinds withRetry rethrows at once, and the kinds it takes another attempt for.
NonRetryableKinds == {k \in ErrorKinds : IsGmailMCPError(k) /\ ~Retryable(k)}

RetriedKinds == ErrorKinds \ NonRetryableKinds

\* C11: an attempt that fails with a recognized error marked non-retryable
\* (Authentication, Validation, NotFound, generic GmailMCPError) ends the
\* call: that error is rethrown, the operation is not invoked again and no
\* sleep follows, whatever the attempt index.
C11_NonRetryableRethrown ==
    \A i \in 1..Len(retry.fails) :
        retry.fails[i] \in NonRetryableKinds =>
            /\ i = Len(retry.fails)
            /\ retry.pc = "thrown"
            /\ retry.result = retry.fails[i]
            /\ retry.calls = i
            /\ Len(retry.sleeps) = i - 1

\* NotFound on the second attempt, after an unrecognized error on the first.
C11_Witness ==
    /\ retry.pc = "thrown"
    /\ retry.fails = <<"Error", "NOT_FOUND_ERROR">>
    /\ retry.result = "NOT_FOUND_ERROR"
    /\ retry.calls = 2
    /\ Len(retry.sleeps) = 1

\* C12: when every attempt fails with an error that is retried, the
\* operation is invoked exactly maxRetries times, the error of the last
\* attempt is rethrown, and no sleep follows the last attempt.
C12_ExhaustedRethrowsLast ==
    LET k == Len(retry.fails)
    IN  (\A i \in 1..k : retry.fails[i] \in RetriedKinds) =>
           /\ k <= retry.maxRetries
           /\ (retry.pc = "thrown") <=> (k = retry.maxRetries)
           /\ k = retry.maxRetries =>
                 /\ retry.calls = retry.maxRetries
                 /\ retry.result = retry.fails[k]
                 /\ Len(retry.sleeps) = retry.maxRetries - 1

\* Three RateLimit failures with maxRetries = 3: thrown after two sleeps.
C12_Witness ==
    /\ retry.pc = "thrown"
    /\ retry.maxRetries = 3
    /\ retry.fails = <<"RATE_LIMIT_ERROR", "RATE_LIMIT_ERROR", "RATE_LIMIT_ERROR">>
    /\ retry.sleeps = <<retry.delayMs, retry.delayMs * 2>>
    /\ retry.calls = 3

\* C13: an attempt with 0-based index a < maxRetries - 1 that fails with an
\* error that is not a GmailMCPError is followed by a sleep of
\* delayMs * (a + 1) and by another invocation of the operation.
C13_UnrecognizedLinear ==
    \A i \in 1..Len(retry.fails) :
        (retry.fails[i] = "Error" /\ i - 1 < retry.maxRetries - 1) =>
            /\ Len(retry.sleeps) >= i
            /\ retry.sleeps[i] = retry.delayMs * ((i - 1) + 1)
            /\ i = Len(retry.fails) =>
                  \/ retry.pc = "sleeping" /\ retry.attempt = i - 1
                  \/ retry.pc = "running" /\ retry.attempt = i /\ retry.calls = i
                  \/ retry.pc = "returned" /\ retry.calls = i + 1

\* Three unrecognized errors, then success: slept delay, 2 * delay, 3 * delay.
C13_Witness ==
    /\ retry.pc = "returned"
    /\ retry.fails = <<"Error", "Error", "Error">>
    /\ retry.sleeps = <<retry.delayMs, retry.delayMs * 2, retry.delayMs * 3>>
    /\ retry.calls = 4

\* C14 (as stated): a call of withRetry returns a success value only if every
\* failed attempt before it failed with RateLimit.
C14_AbsorbsOnlyRateLimit ==
    retry.pc = "returned" => OnlyRateLimit(retry.fails)

\* C14 (amended): a call of withRetry returns a success value only if every
\* failed attempt before it failed with RateLimit, with a GmailMCPError marked
\* retryable or with an error that is not a GmailMCPError; an error of any
\* other kind reaches the caller.
C14_AbsorbsRetriedKinds ==
    /\ retry.pc = "returned" =>
          \A i \in 1..Len(retry.fails) : retry.fails[i] \in RetriedKinds
    /\ (\E i \in 1..Len(retry.fails) : retry.fails[i] \in NonRetryableKinds) =>
          /\ retry.pc = "thrown"
          /\ retry.result \in NonRetryableKinds

\* Success after an unrecognized error and a retryable GmailMCPError.
C14_Witness ==
    /\ retry.pc = "returned"
    /\ retry.result = "ok"
    /\ retry.fails = <<"Error", "RETRYABLE_ERROR">>

\* C15: a call that fails because its connection attempt failed ends with an
\* error marked retryable, after it was attempted up to the attempt limit.
C15_ConnectionErrorRetried ==
    \A t \in Callers :
        LET r == task[t]
        IN  (r.pc = "done" /\ r.connh # 0 /\ r.cmdh = 0 /\ r.result = "IMAP_ERROR") =>
               /\ Retryable(r.result)
               /\ r.attempt = DefaultMaxRetries - 1

\* ------------------------------------------------------ Transmission Client
\* A value the caller left out: undefined or the empty string.
Missing(v) == v = Undefined \/ v = Str(<<>>)

\* No recipient at all: left out, empty, or an empty list.
NoRecipient(v) == Missing(v) \/ v = Arr(<<>>)

IsSend == mail.op \in {"send", "sendTool"} /\ mail.pc # "idle"

IsReply == mail.op \in {"reply", "replyTool"} /\ mail.pc # "idle"

\* C16: sendEmail with a missing recipient, a missing subject, or neither
\* body nor htmlBody fails with VALIDATION_ERROR and submits nothing.
C16_InvalidSendRejected ==
    (/\ IsSend
     /\ mail.req # NoRequest
     /\ \/ NoRecipient(mail.req.to)
        \/ Missing(mail.req.subject)
        \/ Missing(mail.req.body) /\ Missing(mail.req.htmlBody))
    => /\ mail.pc = "thrown"
       /\ mail.result = "VALIDATION_ERROR"
       /\ mail.sent = <<>>

C19_PrefixPerString ==
    (IsReply /\ mail.sent # <<>>) =>
        /\ ~StartsWith(mail.callerSubject.str, RePrefix) =>
              StartsWith(mail.sent[1].subject, ReSpace)
        /\ mail.op = "replyTool" => StartsWith(mail.sent[1].subject, RePrefix)

\* C20: the references header of a reply is the original's references in
\* their order, then the original message identifier, joined by single
\* spaces; the identifier alone when the original has no references.
C20_ReferencesHeader ==
    (IsReply /\ mail.sent # <<>> /\ Truthy(mail.original.messageId)) =>
        LET refs == mail.original.references
            id == mail.original.messageId.str
            header == mail.sent[1].references
            n == Len(refs.arr)
        IN  /\ header.kind = "string"
            /\ refs = Undefined => header.str = id
            /\ refs # Undefined =>
                  /\ Len(header.str) = 2 * n + 1
                  /\ \A i \in 1..n : /\ header.str[2 * i - 1] = refs.arr[i][1]
                                     /\ header.str[2 * i] = " "
                  /\ header.str[2 * n + 1] = id[1]

\* References ["<a>"] and identifier "<b>" gave "<a> <b>".
C20_Witness ==
    /\ IsReply
    /\ mail.original.references = Arr(<< <<"<a>">> >>)
    /\ mail.original.messageId = Str(<<"<b>">>)
    /\ Len(mail.sent) = 1
    /\ mail.sent[1].references = Str(<<"<a>", " ", "<b>">>)

\* C21: every message submitted by replyEmail has exactly one primary
\* recipient, the address of the original message's sender, and an inReplyTo
\* equal to the original message identifier.
C21_ReplyRecipientAndThread ==
    (IsReply /\ mail.sent # <<>>) =>
        \A i \in 1..Len(mail.sent) :
            /\ mail.original.from.kind = "string"
            /\ mail.sent[i].to = <<mail.original.from.str>>
            /\ Len(mail.sent[i].to) = 1
            /\ mail.sent[i].inReplyTo = mail.original.messageId

\* A reply to s@x.org's message "<b>" was submitted.
C21_Witness ==
    /\ IsReply
    /\ Len(mail.sent) = 1
    /\ mail.original.from = Str(<<"s@x.org">>)
    /\ mail.original.messageId = Str(<<"<b>">>)
    /\ mail.sent[1].to = << <<"s@x.org">> >>
    /\ mail.sent[1].inReplyTo = Str(<<"<b>">>)

\* C28: for every Message returned by listEmails, searchEmails or getEmail,
\* unread is true exactly when the seen marker is absent from its flags.
C28_UnreadIffNotSeen ==
    \A t \in Callers :
        \A i \in 1..Len(task[t].emails) :
            task[t].emails[i].unread <=> ("\\Seen" \notin task[t].emails[i].flags)

\* A call returned a message that carries the seen marker and is not unread.
C28_Witness ==
    \E t \in Callers :
        /\ task[t].pc = "done"
        /\ task[t].result = "ok"
        /\ \E i \in 1..Len(task[t].emails) :
              /\ "\\Seen" \in task[t].emails[i].flags
              /\ ~task[t].emails[i].unread

\* The position of UID u in the sequence s of distinct UIDs.
PositionIn(s, u) == CHOOSE i \in 1..Len(s) : s[i] = u

\* C29: the sequence returned by listEmails lists the messages in the order
\* of the selected UIDs of the reversed search result, whatever the order of
\* delivery and of the completion of the parses.
C29_ReturnedInSelectedOrder ==
    \A t \in Callers :
        LET r == task[t]
        IN  (IsList(r) /\ r.pc = "done" /\ r.result = "ok"
             /\ EmailUids(r) \subseteq Range(r.uids)) =>
               \A i, j \in 1..Len(r.emails) :
                   i < j => PositionIn(r.uids, r.emails[i].uid)
                              < PositionIn(r.uids, r.emails[j].uid)

\* C30: every listEmails call eventually completes, with a result or with an
\* error, also when the store delivers fewer messages than UIDs were requested
\* or the connection ends during the fetch.
C30_ListCompletes ==
    \A t \in Callers :
        (IsList(task[t]) /\ task[t].pc = "awaitFetch") ~> (task[t].pc = "done")

\* A time whose hour is in 0..23 and whose minute is in 0..59.
ValidTime(time) ==
    /\ Len(time) >= 2
    /\ ~NumberOf(time[1]).nan /\ NumberOf(time[1]).n \in 0..23
    /\ ~NumberOf(time[2]).nan /\ NumberOf(time[2]).n \in 0..59

\* C22: setupScheduler with scheduling enabled registers one daily trigger
\* for every configured entry whose hour is in 0..23 and minute in 0..59, in
\* the order of the entries, and none for any other entry: an invalid entry
\* is skipped and does not keep the entries before or after it from
\* registering.
C22_OneTriggerPerValidTime ==
    (proc.setup /\ proc.enabled) =>
        LET valid == SelectSeq(proc.times, ValidTime)
        IN  /\ Len(proc.scheduledTasks) = Len(valid)
            /\ \A k \in 1..Len(valid) :
                  /\ proc.scheduledTasks[k].expr =
                        [minute |-> NumberOf(valid[k][2]).n,
                         hour   |-> NumberOf(valid[k][1]).n]
                  /\ proc.scheduledTasks[k].running

\* "15:00,25:00,23:59" was set up: two triggers, for 15:00 and for 23:59.
C22_Witness ==
    /\ proc.setup /\ proc.enabled
    /\ proc.times = << <<"15", "00">>, <<"25", "00">>, <<"23", "59">> >>
    /\ Len(proc.scheduledTasks) = 2
    /\ proc.scheduledTasks[1].expr = [minute |-> 0, hour |-> 15]
    /\ proc.scheduledTasks[2].expr = [minute |-> 59, hour |-> 23]

\* C23: when scheduling is disabled or the list of times is empty,
\* setupScheduler registers no trigger, returns an empty set and never calls
\* the Mailbox Client; no scheduled firing occurs afterwards.
C23_DisabledRegistersNothing ==
    (proc.setup /\ (~proc.enabled \/ proc.times = <<>>)) =>
        /\ proc.scheduledTasks = <<>>
        /\ proc.fired = <<>>
        /\ calls["sched"] = 0
        /\ task["sched"] = IdleTask
        /\ nh = 0 /\ queue = <<>>

\* setupScheduler has returned for a disabled configuration that lists a
\* valid time.
C23_Witness ==
    /\ proc.setup
    /\ ~proc.enabled
    /\ \E k \in 1..Len(proc.times) : ValidTime(proc.times[k])
    /\ proc.scheduledTasks = <<>>

\* A firing has settled with an error.
FiringFailed == task["sched"].pc = "done" /\ task["sched"].result # "ok"

\* C24: a scheduled firing in which listEmails fails does not propagate the
\* failure: the process keeps running, the trigger stays registered, and the
\* next firing of the same trigger can run.
C24_FailedFiringContained ==
    (FiringFailed /\ proc.fired # <<>>) =>
        LET i == proc.fired[Len(proc.fired)].trigger
        IN  /\ proc.exitCode # <<1>>
            /\ Len(proc.scheduledTasks) >= i
            /\ (proc.log = <<>>) =>
                  /\ phase = "serving"
                  /\ proc.scheduledTasks[i].running
                  /\ (calls["sched"] < MaxProcFirings) =>
                        ENABLED ScheduledFiring(i, MaxProcFirings)

\* A trigger fires again after its firing before had failed.
C24_Witness ==
    /\ Len(proc.fired) = 2
    /\ proc.fired[1].trigger = proc.fired[2].trigger
    /\ proc.fired[2].after = "IMAP_ERROR"
    /\ task["sched"].pc = "done"
    /\ task["sched"].result = "ok"

IsPrefix(s, t) == Len(s) <= Len(t) /\ \A k \in 1..Len(s) : s[k] = t[k]

\* The steps of the shutdown handler follow its order, the triggers are
\* stopped from the first step on, and exit code 0 comes after all of them.
ShutdownInOrder ==
    /\ IsPrefix(proc.log, ShutdownOrder)
    /\ (proc.log # <<>>) =>
          \A k \in 1..Len(proc.scheduledTasks) : ~proc.scheduledTasks[k].running
    /\ (proc.exitCode = <<0>>) => (proc.log = ShutdownOrder)

\* C25: on a shutdown signal the process first stops every scheduled
\* trigger, then closes the mailbox connection, then closes the transmission
\* channel, then exits; no scheduled firing starts after the triggers were
\* stopped.
C25_ShutdownOrder ==
    /\ []ShutdownInOrder
    /\ [][(proc.log # <<>>) => (proc'.fired = proc.fired)]_vars

\* The process has exited on a signal after a trigger had fired and the
\* connection was ended by disconnect().
C25_Witness ==
    /\ phase = "exited"
    /\ proc.exitCode = <<0>>
    /\ proc.log = ShutdownOrder
    /\ proc.fired # <<>>
    /\ imap = 0
    /\ \E h \in Handles : hstate[h] = "closed"

\* C26: the process serves tool requests and registers scheduled triggers
\* only after the mailbox connect and the transmission verify have both
\* succeeded; if either fails, the process terminates without serving any
\* request and without registering any trigger.
C26_StartupAllOrNothing ==
    /\ (\/ phase = "serving"
        \/ calls["tool"] > 0 \/ calls["sched"] > 0
        \/ proc.scheduledTasks # <<>>) =>
          (proc.connect = "ok" /\ proc.verify = "ok")
    /\ (proc.connect = "failed" \/ proc.verify = "failed") =>
          /\ phase = "exited"
          /\ proc.exitCode = <<1>>
          /\ calls["tool"] = 0 /\ calls["sched"] = 0
          /\ proc.scheduledTasks = <<>>

\* The connect succeeded, the verify failed, and the process has exited.
C26_Witness ==
    /\ phase = "exited"
    /\ proc.connect = "ok"
    /\ proc.verify = "failed"
    /\ proc.exitCode = <<1>>

\* C27: verify() fails with an error of the Authentication kind (code
\* AUTH_ERROR, status 401) when the handshake is rejected, and succeeds
\* otherwise.
C27_VerifyAuthenticationError ==
    /\ (proc.verify = "failed") => (proc.verifyError = AuthenticationError)
    /\ (proc.verify = "ok") => (proc.verifyError = NoError)

\* C31: a mailbox-selection, search, fetch or flag-update failure makes
\* listEmails, getEmail or markAsRead fail after a single attempt with the
\* non-retryable protocol error IMAP_ERROR: no call is attempted again, no
\* call sleeps, and a failed call carries IMAP_ERROR (the NOT_FOUND_ERROR of a
\* getEmail whose fetch error says "not found" is let through here).
C31_SingleAttemptProtocolError ==
    \A t \in Callers :
        /\ task[t].pc # "sleep"
        /\ task[t].attempt = 0
        /\ (task[t].pc = "done" /\ task[t].result # "ok") =>
              \/ task[t].result = "IMAP_ERROR"
              \/ task[t].op = "get" /\ task[t].result = "NOT_FOUND_ERROR"

\* C32: each scheduled firing calls listEmails exactly once, with the criteria
\* "unread and on or after the date of now - 24h", limit 50, offset 0 and the
\* mailbox INBOX, whatever the schedule configuration; it never reports more
\* than 50 messages.
C32_FiringCall ==
    LET r == task["sched"]
    IN  /\ calls["sched"] = Len(proc.fired)
        /\ (r.op # "none") =>
              /\ r.op = "list"
              /\ r.crit = ScheduledCriteria
              /\ r.limit = ScheduledLimit
              /\ r.offset = 0
              /\ r.mbox = "INBOX"
              /\ Len(r.uids) <= ScheduledLimit
              /\ Len(r.emails) <= ScheduledLimit

\* A firing has reported the unread message of INBOX.
C32_Witness ==
    /\ task["sched"].pc = "done"
    /\ task["sched"].result = "ok"
    /\ Len(task["sched"].emails) = 1
    /\ task["sched"].emails[1].uid = 1
    /\ Len(proc.fired) = 1

IsReplyTool == mail.op = "replyTool" /\ mail.pc # "idle"

\* C33: the reply tool reads the original message with getEmail before it
\* submits anything: when the reply has no body and no htmlBody, or getEmail
\* fails, no message is submitted.
C33_ReadBeforeSubmit ==
    IsReplyTool =>
        /\ (mail.sent # <<>>) => (mail.read = "ok")
        /\ (~Truthy(mail.req.body) /\ ~Truthy(mail.req.htmlBody)) =>
              (mail.sent = <<>> /\ mail.read = "none" /\ mail.pc = "thrown")
        /\ (mail.read \notin {"none", "ok"}) =>
              (mail.sent = <<>> /\ mail.pc = "thrown" /\ mail.result = mail.read)
        /\ (mail.pc = "reading") => (mail.sent = <<>>)

\* The reply tool has failed with the NotFound error of its getEmail.
C33_Witness ==
    /\ IsReplyTool
    /\ mail.read = "NOT_FOUND_ERROR"
    /\ mail.pc = "thrown"
    /\ mail.result = "NOT_FOUND_ERROR"
    /\ Truthy(mail.req.body)
    /\ mail.sent = <<>>

\* C34: a reply to an original message that has no sender address is never
\* submitted: replyEmail fails with VALIDATION_ERROR before anything is
\* handed to the transport.
C34_NoSenderNotSubmitted ==
    (IsReply /\ mail.callerSubject # Undefined /\ ~Truthy(mail.original.from)) =>
        /\ mail.sent = <<>>
        /\ mail.pc = "thrown"
        /\ mail.result = "VALIDATION_ERROR"

\* replyEmail was called with a body for an original without a sender.
C34_Witness ==
    /\ IsReply
    /\ mail.callerSubject # Undefined
    /\ mail.original.from = Undefined
    /\ Truthy(mail.req.body)
    /\ mail.result = "VALIDATION_ERROR"
    /\ mail.sent = <<>>

\* C35: the tool dispatcher never lets an error escape a tool call: an
\* input-validation failure, an unknown tool name or any error of a client is
\* returned as a result flagged isError, a GmailMCPError with its code in the
\* text; the server keeps serving later requests.
C35_NoErrorEscapes ==
    /\ \A k \in 1..Len(disp.responses) :
          LET res == disp.responses[k]
          IN  /\ ~res.escaped
              /\ res.isError <=> (res.thrown # "ok")
              /\ IsGmailMCPError(res.thrown) => (res.code = <<res.thrown>>)
              /\ (res.name \notin ToolNames) => res.isError
    /\ (disp.responses # <<>>) => (phase = "serving")
    /\ (disp.pc = "idle" /\ disp.responses # <<>>
        /\ Len(disp.responses) < MaxRequests) =>
          ENABLED (\E name \in ToolNames : ToolRequest(name))

\* A request failed on its arguments, and a later one was answered with the
\* code of a GmailMCPError.
C35_Witness ==
    /\ Len(disp.responses) = 2
    /\ disp.responses[1].thrown = "ZodError"
    /\ disp.responses[1].isError
    /\ disp.responses[2].thrown = "NOT_FOUND_ERROR"
    /\ disp.responses[2].code = <<"NOT_FOUND_ERROR">>

\* C36: markAsRead(S, mailbox) changes nothing but the seen marker of the
\* UIDs of S in the named mailbox, also when an operation on another mailbox
\* overlaps the call; when markAsRead fails, no flag is changed. Every step
\* that changes a flag in the store is the success of a markAsRead call, and
\* it turns messages of that call's UIDs in that call's mailbox from unseen to
\* seen and leaves every other message alone.
C36_MarkAsReadFrame ==
    [][(store' # store) =>
          \E t \in Callers :
              /\ task[t].op = "mark"
              /\ task[t].pc = "awaitFlags"
              /\ task'[t].pc = "done" /\ task'[t].result = "ok"
              /\ \A m \in Mailboxes, u \in UIDs :
                    (store'[m][u] # store[m][u]) =>
                        /\ m = task[t].mbox
                        /\ u \in task[t].argUids
                        /\ store[m][u] = "unseen" /\ store'[m][u] = "seen"]_vars

\* The operation was invoked at most maxRetries times with at most
\* maxRetries - 1 sleeps; withRetry has ended only after an invocation, and it
\* has returned only with the first attempt that succeeded.
RetryWithinBounds ==
    /\ retry.calls <= retry.maxRetries
    /\ Len(retry.sleeps) <= retry.maxRetries - 1
    /\ (retry.pc \in {"returned", "thrown"}) => (retry.calls >= 1)
    /\ (retry.pc = "returned") =>
          (retry.result = "ok" /\ Len(retry.fails) = retry.calls - 1)
    /\ (retry.pc = "thrown") => (Len(retry.fails) = retry.calls)

\* C37: for every maxRetries >= 1 and every operation whose attempts each
\* terminate, withRetry terminates after at least 1 and at most maxRetries
\* invocations of the operation with at most maxRetries - 1 sleeps, and it
\* returns the value of the first successful attempt.
C37_RetryTerminates ==
    /\ []RetryWithinBounds
    /\ <>(retry.pc \in {"returned", "thrown"})

\* withRetry with maxRetries = 3 has returned from the third invocation after
\* two sleeps.
C37_Witness ==
    /\ retry.maxRetries = 3
    /\ retry.pc = "returned"
    /\ retry.calls = 3
    /\ Len(retry.sleeps) = 2
    /\ Len(retry.fails) = 2

\* C38: whatever the state in which disconnect() is called, once it has
\* completed the client is Disconnected with no channel handle, and it stays
\* so until a later connect() or operation. After the disconnect() of the
\* shutdown handler has completed no call starts, so from then on connected
\* is false and this.imap holds no handle that is connecting or ready (a
\* reference left to a handle that has closed is let through here).
C38_DisconnectedAfterDisconnect ==
    (Len(proc.log) >= 2 /\ proc.log[2] = "imapClient.disconnect") =>
        /\ ~connected
        /\ imap = 0 \/ hstate[imap] = "closed"

====
